---------------------------- MODULE Spec2Model ----------------------------
(***************************************************************************)
(* A model of the XML-RPC value codec: the Value type and Value::format    *)
(* (src/src/value.rs), Fault::from_value and the error conversions         *)
(* (src/src/error.rs).                                                     *)
(*                                                                         *)
(* Text is a sequence of one-character strings, so that escaping, decimal  *)
(* formatting and base64 are computed character by character.             *)
(***************************************************************************)
EXTENDS Integers, Sequences, FiniteSets, TLC

VARIABLES value,     \* the Value handed to format / from_value
          stack,     \* the call stack of Value::format, innermost frame last
          out,       \* the bytes the sink has accepted
          writes,    \* the number of writeln! calls made so far
          failedAt,  \* 0, or the index of the first writeln! the sink refused
          ret,       \* "none", or the io::Result a format call has just returned
          hist,      \* the (name, value) pairs inserted into the map, in order
          map,       \* the BTreeMap under construction
          fault,     \* unset, or the Option<Fault> from_value returned
          err,       \* the error value being converted
          origin,    \* the error the conversions started from
          chain      \* the conversions applied so far, oldest first

vars == <<value, stack, out, writes, failedAt, ret, hist, map, fault, err, origin, chain>>

----------------------------------------------------------------------------
(* Bounds of the model.                                                    *)

MaxStrLen == 2      \* longest generated String payload
MaxBytes == 3       \* longest generated Base64 payload
MaxNodes == 4       \* most nodes in a generated composite value tree
MaxInserts == 3     \* most insertions into a map under construction

MaxI32 == 2147483647
MinI32 == -MaxI32 - 1

----------------------------------------------------------------------------
(* Text helpers.                                                           *)

NL == "\n"

RECURSIVE Flatten(_)
Flatten(ss) == IF ss = <<>> THEN <<>> ELSE Head(ss) \o Flatten(Tail(ss))

RECURSIVE SeqsUpTo(_, _)
\* all sequences over S of length at most n
SeqsUpTo(S, n) ==
  IF n = 0 THEN {<<>>}
  ELSE LET shorter == SeqsUpTo(S, n - 1)
       IN shorter \cup {<<x>> \o s : x \in S, s \in {t \in shorter : Len(t) = n - 1}}

\* The characters that occur in map keys, in ascending byte order.
ByteOrder ==
  <<"&", "<", ">", "C", "S", "a", "b", "c", "d", "e", "f", "g", "i", "l", "n",
    "o", "r", "t", "u", "x">>

Ord(c) == CHOOSE i \in 1..Len(ByteOrder) : ByteOrder[i] = c

RECURSIVE StrLess(_, _)
\* str's Ord: bytewise lexicographic comparison
StrLess(a, b) ==
  IF b = <<>> THEN FALSE
  ELSE IF a = <<>> THEN TRUE
  ELSE IF Head(a) # Head(b) THEN Ord(Head(a)) < Ord(Head(b))
  ELSE StrLess(Tail(a), Tail(b))

Digits == <<"0", "1", "2", "3", "4", "5", "6", "7", "8", "9">>

RECURSIVE NatToText(_)
NatToText(n) ==
  IF n < 10 THEN <<Digits[n + 1]>> ELSE NatToText(n \div 10) \o <<Digits[(n % 10) + 1]>>

RECURSIVE NegToText(_)
\* the decimal digits of |n| for n < 0, computed without negating n
NegToText(n) ==
  LET d == (10 - (n % 10)) % 10
      q == (n + d) \div 10
  IN IF q = 0 THEN <<Digits[d + 1]>> ELSE NegToText(q) \o <<Digits[d + 1]>>

\* Display for i32, the "{}" of line 42
IntToText(i) == IF i < 0 THEN <<"-">> \o NegToText(i) ELSE NatToText(i)

\* "{:0w}" for a non-negative number
RECURSIVE Pad(_, _)
Pad(n, w) == LET t == NatToText(n) IN IF Len(t) >= w THEN t ELSE <<"0">> \o Pad(n, w - 1)

----------------------------------------------------------------------------
(* The Value type, src/src/value.rs:13-34.                                 *)

Int32(i) == [tag |-> "Int", val |-> i]
Bool(b) == [tag |-> "Bool", val |-> b]
String(s) == [tag |-> "String", val |-> s]
Double(d) == [tag |-> "Double", val |-> d]
DateTime(dt) == [tag |-> "DateTime", val |-> dt]
Base64(data) == [tag |-> "Base64", val |-> data]
\* a BTreeMap is its entries <<name, value>> in ascending key order
Struct(m) == [tag |-> "Struct", val |-> m]
Array(a) == [tag |-> "Array", val |-> a]

\* f64 values, named by their shortest decimal text: sign, integer part,
\* fraction digits; or an infinity; or NaN
Finite(neg, int, frac) == [class |-> "finite", neg |-> neg, int |-> int, frac |-> frac]
Infinite(neg) == [class |-> "inf", neg |-> neg, int |-> 0, frac |-> <<>>]
NotANumber == [class |-> "nan", neg |-> FALSE, int |-> 0, frac |-> <<>>]

\* Display for f64, the "{}" of line 51
DoubleToText(d) ==
  IF d.class = "nan" THEN <<"N", "a", "N">>
  ELSE (IF d.neg THEN <<"-">> ELSE <<>>) \o
       (IF d.class = "inf" THEN <<"i", "n", "f">>
        ELSE NatToText(d.int) \o (IF d.frac = <<>> THEN <<>> ELSE <<".">> \o d.frac))

\* PartialEq for f64: NaN equals nothing, the two zeros are equal
DoubleEq(a, b) ==
  /\ a.class # "nan" /\ b.class # "nan"
  /\ \/ a = b
     \/ a.class = "finite" /\ b.class = "finite" /\ a.int = 0 /\ b.int = 0
        /\ a.frac = <<>> /\ b.frac = <<>>

RECURSIVE ValueEq(_, _)
\* #[derive(PartialEq)] of Value, line 12
ValueEq(a, b) ==
  /\ a.tag = b.tag
  /\ CASE a.tag = "Double" -> DoubleEq(a.val, b.val)
       [] a.tag = "Array" ->
            /\ Len(a.val) = Len(b.val)
            /\ \A i \in 1..Len(a.val) : ValueEq(a.val[i], b.val[i])
       [] a.tag = "Struct" ->
            /\ Len(a.val) = Len(b.val)
            /\ \A i \in 1..Len(a.val) : a.val[i][1] = b.val[i][1] /\ ValueEq(a.val[i][2], b.val[i][2])
       [] OTHER -> a.val = b.val

\* utils::format_datetime
format_datetime(dt) ==
  Pad(dt.year, 4) \o Pad(dt.month, 2) \o Pad(dt.day, 2) \o <<"T">> \o
  Pad(dt.hour, 2) \o <<":">> \o Pad(dt.minute, 2) \o <<":">> \o Pad(dt.second, 2)

B64Alphabet ==
  <<"A","B","C","D","E","F","G","H","I","J","K","L","M","N","O","P","Q","R","S","T",
    "U","V","W","X","Y","Z","a","b","c","d","e","f","g","h","i","j","k","l","m","n",
    "o","p","q","r","s","t","u","v","w","x","y","z","0","1","2","3","4","5","6","7",
    "8","9","+","/">>

B64Char(sextet) == B64Alphabet[sextet + 1]

RECURSIVE encode(_)
\* base64::encode: the standard alphabet, padded with "="
encode(data) ==
  IF data = <<>> THEN <<>>
  ELSE IF Len(data) = 1 THEN
    <<B64Char(data[1] \div 4), B64Char((data[1] % 4) * 16), "=", "=">>
  ELSE IF Len(data) = 2 THEN
    <<B64Char(data[1] \div 4), B64Char((data[1] % 4) * 16 + data[2] \div 16),
      B64Char((data[2] % 16) * 4), "=">>
  ELSE
    <<B64Char(data[1] \div 4), B64Char((data[1] % 4) * 16 + data[2] \div 16),
      B64Char((data[2] % 16) * 4 + data[3] \div 64), B64Char(data[3] % 64)>>
    \o encode(SubSeq(data, 4, Len(data)))

RECURSIVE ReplaceChar(_, _, _)
\* str::replace for a one-character pattern
ReplaceChar(s, c, with) ==
  IF s = <<>> THEN <<>>
  ELSE (IF Head(s) = c THEN with ELSE <<Head(s)>>) \o ReplaceChar(Tail(s), c, with)

\* utils::escape_xml: "&" first, then "<"
escape_xml(s) ==
  ReplaceChar(ReplaceChar(s, "&", <<"&", "a", "m", "p", ";">>), "<", <<"&", "l", "t", ";">>)

----------------------------------------------------------------------------
(* The values the model formats.                                           *)

Ints == {MinI32, -1, 0, 7, MaxI32}

StrAlphabet == {"a", "<", "&", ">", " ", NL}

\* the String of tests::escapes_strings
TestString == <<"<", "x", "m", "l", ">", "&", "n", "b", "s", "p", ";", "s", "t", "r", "i", "n", "g">>

Strings == SeqsUpTo(StrAlphabet, MaxStrLen) \cup {TestString}

Doubles ==
  {Finite(FALSE, 0, <<>>), Finite(FALSE, 1, <<"5">>), Finite(TRUE, 2, <<"2", "5">>),
   Finite(FALSE, 100, <<>>), Infinite(FALSE), Infinite(TRUE), NotANumber}

DateTimes ==
  {[year |-> 1998, month |-> 7, day |-> 17, hour |-> 14, minute |-> 8, second |-> 55],
   [year |-> 2016, month |-> 12, day |-> 1, hour |-> 0, minute |-> 0, second |-> 0]}

ByteSeqs == SeqsUpTo({77, 255}, MaxBytes)

Scalars ==
  {Int32(i) : i \in Ints} \cup {Bool(b) : b \in BOOLEAN} \cup {String(s) : s \in Strings}
  \cup {Double(d) : d \in Doubles} \cup {DateTime(dt) : dt \in DateTimes}
  \cup {Base64(b) : b \in ByteSeqs}

\* the member name of tests::escapes_struct_member_names, and a plain one
TreeNames == {<<"a">>, <<"x", "&", "<", "x">>}

TreeLeaves == {Int32(7), String(<<"<", "&">>)}

\* the key sequences of length n a BTreeMap over the names can hold: ascending
SortedNames(names, n) ==
  {ks \in [1..n -> names] : \A i \in 1..(n - 1) : StrLess(ks[i], ks[i + 1])}

RECURSIVE Trees(_), Forests(_)
\* the value trees of exactly n nodes
Trees(n) ==
  IF n = 1 THEN TreeLeaves \cup {Array(<<>>), Struct(<<>>)}
  ELSE {Array(f) : f \in Forests(n - 1)}
       \cup UNION {{Struct([i \in 1..Len(f) |-> <<ks[i], f[i]>>]) :
                      ks \in SortedNames(TreeNames, Len(f))} : f \in Forests(n - 1)}
\* the non-empty sequences of trees of k nodes in all
Forests(k) ==
  IF k = 0 THEN {<<>>}
  ELSE UNION {{<<t>> \o f : t \in Trees(j), f \in Forests(k - j)} : j \in 1..k}

Values == Scalars \cup UNION {Trees(n) : n \in 1..MaxNodes}

----------------------------------------------------------------------------
(* Value::format, src/src/value.rs:37-83, as a machine that makes one      *)
(* writeln! per step.  A frame is one activation of format: the value it   *)
(* formats, the source line it stands at, and the position of the loop of  *)
(* line 61 or 72.                                                          *)

Frame(v) == [self |-> v, pc |-> "L38", idx |-> 0]

Top == stack[Len(stack)]
Pop == SubSeq(stack, 1, Len(stack) - 1)
Replace(f) == [stack EXCEPT ![Len(stack)] = f]

\* the arm of the match of line 40
MatchArm(v) ==
  CASE v.tag = "Int" -> "L42"
    [] v.tag = "Bool" -> "L45"
    [] v.tag = "String" -> "L48"
    [] v.tag = "Double" -> "L51"
    [] v.tag = "DateTime" -> "L54"
    [] v.tag = "Base64" -> "L57"
    [] v.tag = "Struct" -> "L60"
    [] v.tag = "Array" -> "L70"

\* line 45: if b { "1" } else { "0" }
BoolText(b) == IF b THEN <<"1">> ELSE <<"0">>

\* Int written under <int>
IntElementInt(i) == <<"<","i","n","t",">">> \o IntToText(i) \o <<"<","/","i","n","t",">">>
\* a String written without escaping
StringElementRaw(s) ==
  <<"<","s","t","r","i","n","g",">">> \o s \o <<"<","/","s","t","r","i","n","g",">">>

\* lines 42-57: the element a scalar arm writes
IntElement(i) == <<"<","i","4",">">> \o IntToText(i) \o <<"<","/","i","4",">">>
BoolElement(b) ==
  <<"<","b","o","o","l","e","a","n",">">> \o BoolText(b) \o <<"<","/","b","o","o","l","e","a","n",">">>
StringElement(s) ==
  <<"<","s","t","r","i","n","g",">">> \o escape_xml(s) \o <<"<","/","s","t","r","i","n","g",">">>
DoubleElement(d) ==
  <<"<","d","o","u","b","l","e",">">> \o DoubleToText(d) \o <<"<","/","d","o","u","b","l","e",">">>
DateTimeElement(dt) ==
  <<"<","d","a","t","e","T","i","m","e",".","i","s","o","8","6","0","1",">">> \o format_datetime(dt)
  \o <<"<","/","d","a","t","e","T","i","m","e",".","i","s","o","8","6","0","1",">">>
Base64Element(data) ==
  <<"<","b","a","s","e","6","4",">">> \o encode(data) \o <<"<","/","b","a","s","e","6","4",">">>

\* a member name written without escaping
NameElementRaw(name) == <<"<","n","a","m","e",">">> \o name \o <<"<","/","n","a","m","e",">">>

\* line 63
NameElement(name) == <<"<","n","a","m","e",">">> \o escape_xml(name) \o <<"<","/","n","a","m","e",">">>

\* a struct closed as an array
StructCloseAsArray == <<"<","/","a","r","r","a","y",">">>

\* lines 60, 62, 65, 67, 70, 71, 75, 76, 38, 80: the fixed tags
StructOpen == <<"<","s","t","r","u","c","t",">">>
MemberOpen == <<"<","m","e","m","b","e","r",">">>
MemberClose == <<"<","/","m","e","m","b","e","r",">">>
StructClose == <<"<","/","s","t","r","u","c","t",">">>
ArrayOpen == <<"<","a","r","r","a","y",">">>
DataOpen == <<"<","d","a","t","a",">">>
DataClose == <<"<","/","d","a","t","a",">">>
ArrayClose == <<"<","/","a","r","r","a","y",">">>
ValueOpen == <<"<","v","a","l","u","e",">">>
ValueClose == <<"<","/","v","a","l","u","e",">">>

\* the lines that hold a writeln!
WritePcs ==
  {"L38", "L42", "L45", "L48", "L51", "L54", "L57", "L60", "L62", "L63", "L65", "L67",
   "L70", "L71", "L75", "L76", "L80"}

\* the text the writeln! at the frame's line formats, without its newline
Line(f) ==
  CASE f.pc = "L38" -> ValueOpen
    [] f.pc = "L42" -> IntElement(f.self.val)
    [] f.pc = "L45" -> BoolElement(f.self.val)
    [] f.pc = "L48" -> StringElement(f.self.val)
    [] f.pc = "L51" -> DoubleElement(f.self.val)
    [] f.pc = "L54" -> DateTimeElement(f.self.val)
    [] f.pc = "L57" -> Base64Element(f.self.val)
    [] f.pc = "L60" -> StructOpen
    [] f.pc = "L62" -> MemberOpen
    [] f.pc = "L63" -> NameElement(f.self.val[f.idx][1])
    [] f.pc = "L65" -> MemberClose
    [] f.pc = "L67" -> StructClose
    [] f.pc = "L70" -> ArrayOpen
    [] f.pc = "L71" -> DataOpen
    [] f.pc = "L75" -> DataClose
    [] f.pc = "L76" -> ArrayClose
    [] f.pc = "L80" -> ValueClose

\* line 61: the next entry of the map, or the end of the loop
StructLoop(f, i) ==
  IF i <= Len(f.self.val) THEN [f EXCEPT !.pc = "L62", !.idx = i] ELSE [f EXCEPT !.pc = "L67"]

\* the loop of line 72 leaving before the last element
ArrayLoopShort(f, i) ==
  IF i < Len(f.self.val) THEN [f EXCEPT !.pc = "L73", !.idx = i] ELSE [f EXCEPT !.pc = "L75"]

\* line 72: the next element of the array, or the end of the loop
ArrayLoop(f, i) ==
  IF i <= Len(f.self.val) THEN [f EXCEPT !.pc = "L73", !.idx = i] ELSE [f EXCEPT !.pc = "L75"]

\* where the frame stands after the statement at its line has succeeded
Step(f) ==
  CASE f.pc = "L38" -> [f EXCEPT !.pc = MatchArm(f.self)]
    [] f.pc \in {"L42", "L45", "L48", "L51", "L54", "L57"} -> [f EXCEPT !.pc = "L80"]
    [] f.pc = "L60" -> StructLoop(f, 1)
    [] f.pc = "L62" -> [f EXCEPT !.pc = "L63"]
    [] f.pc = "L63" -> [f EXCEPT !.pc = "L64"]
    [] f.pc = "L64" -> [f EXCEPT !.pc = "L65"]
    [] f.pc = "L65" -> StructLoop(f, f.idx + 1)
    [] f.pc = "L67" -> [f EXCEPT !.pc = "L80"]
    [] f.pc = "L70" -> [f EXCEPT !.pc = "L71"]
    [] f.pc = "L71" -> ArrayLoop(f, 1)
    [] f.pc = "L73" -> ArrayLoop(f, f.idx + 1)
    [] f.pc = "L75" -> [f EXCEPT !.pc = "L76"]
    [] f.pc = "L76" -> [f EXCEPT !.pc = "L80"]
    [] f.pc = "L80" -> [f EXCEPT !.pc = "L81"]

\* the value the recursive call of line 64 or 73 formats
Callee(f) == IF f.pc = "L64" THEN f.self.val[f.idx][2] ELSE f.self.val[f.idx]

\* a result that is dropped instead of tried
TryReturnsNever(r) == FALSE

\* try!: whether the result makes the enclosing function return at once
TryReturns(r) == r = "Err"

Running == stack # <<>>

\* one writeln!(fmt, ...) of lines 38-80 against the sink, inside its try!
Writeln ==
  /\ Running /\ ret = "none" /\ Top.pc \in WritePcs
  /\ \E r \in {"Ok", "Err"} :
       /\ writes' = writes + 1
       /\ out' = IF r = "Ok" THEN out \o Line(Top) \o <<NL>> ELSE out
       /\ failedAt' = IF r = "Err" /\ failedAt = 0 THEN writes + 1 ELSE failedAt
       /\ IF TryReturns(r)
            THEN stack' = Pop /\ ret' = "Err"
            ELSE stack' = Replace(Step(Top)) /\ ret' = "none"
  /\ UNCHANGED <<value, hist, map, fault, err, origin, chain>>

\* value.format(fmt) of line 64 or 73: enter the nested call
Call ==
  /\ Running /\ ret = "none" /\ Top.pc \in {"L64", "L73"}
  /\ stack' = Append(stack, Frame(Callee(Top)))
  /\ UNCHANGED <<value, out, writes, failedAt, ret, hist, map, fault, err, origin, chain>>

\* the try! around the nested call, once the call has returned
TryCall ==
  /\ Running /\ ret # "none" /\ Top.pc \in {"L64", "L73"}
  /\ IF TryReturns(ret)
       THEN stack' = Pop /\ ret' = ret
       ELSE stack' = Replace(Step(Top)) /\ ret' = "none"
  /\ UNCHANGED <<value, out, writes, failedAt, hist, map, fault, err, origin, chain>>

\* line 81: Ok(())
Return ==
  /\ Running /\ ret = "none" /\ Top.pc = "L81"
  /\ stack' = Pop /\ ret' = "Ok"
  /\ UNCHANGED <<value, out, writes, failedAt, hist, map, fault, err, origin, chain>>

\* format has returned to its outermost caller
Done == stack = <<>> /\ ret # "none"

Idle == hist = <<>> /\ map = <<>> /\ fault = [kind |-> "unset"]
        /\ err = [type |-> "none", variant |-> "none", inner |-> <<>>] /\ origin = err /\ chain = <<>>

Init ==
  /\ value \in Values
  /\ stack = <<Frame(value)>>
  /\ out = <<>> /\ writes = 0 /\ failedAt = 0 /\ ret = "none"
  /\ Idle

Next == Writeln \/ Call \/ TryCall \/ Return

Spec == Init /\ [][Next]_vars

----------------------------------------------------------------------------
(* BTreeMap<String, Value>: the entries in ascending key order.            *)

\* a map that keeps insertion order
BTreeInsertLast(m, k, v) ==
  IF \E i \in 1..Len(m) : m[i][1] = k
    THEN [i \in 1..Len(m) |-> IF m[i][1] = k THEN <<k, v>> ELSE m[i]]
    ELSE Append(m, <<k, v>>)

RECURSIVE BTreeInsert(_, _, _)
\* BTreeMap::insert: a new key goes to its sorted place; an existing key keeps
\* its place and takes the new value
BTreeInsert(m, k, v) ==
  IF m = <<>> THEN << <<k, v>> >>
  ELSE IF Head(m)[1] = k THEN << <<k, v>> >> \o Tail(m)
  ELSE IF StrLess(k, Head(m)[1]) THEN << <<k, v>> >> \o m
  ELSE <<Head(m)>> \o BTreeInsert(Tail(m), k, v)

\* BTreeMap::get: Some(value) as <<value>>, None as <<>>
BTreeGet(m, k) ==
  IF \E i \in 1..Len(m) : m[i][1] = k
    THEN <<m[CHOOSE i \in 1..Len(m) : m[i][1] = k][2]>>
    ELSE <<>>

----------------------------------------------------------------------------
(* The parser of section 4.3: a tokenizer that yields element starts,      *)
(* element ends and decoded text, and a recursive descent over the tokens. *)

IndexOf(s, c) == IF \E i \in 1..Len(s) : s[i] = c
                   THEN CHOOSE i \in 1..Len(s) : s[i] = c /\ \A j \in 1..(i - 1) : s[j] # c
                   ELSE 0

StartsWith(s, p) == Len(s) >= Len(p) /\ SubSeq(s, 1, Len(p)) = p
Drop(s, n) == SubSeq(s, n + 1, Len(s))

RECURSIVE Unescape(_)
\* character data with its entity references decoded; <<"!">> \o rest marks a
\* reference the tokenizer does not know
Unescape(s) ==
  IF s = <<>> THEN [ok |-> TRUE, text |-> <<>>]
  ELSE IF Head(s) # "&" THEN
    LET r == Unescape(Tail(s)) IN [ok |-> r.ok, text |-> <<Head(s)>> \o r.text]
  ELSE
    LET ref == CASE StartsWith(s, <<"&","a","m","p",";">>) -> <<"&", 5>>
                 [] StartsWith(s, <<"&","l","t",";">>) -> <<"<", 4>>
                 [] StartsWith(s, <<"&","g","t",";">>) -> <<">", 4>>
                 [] OTHER -> <<"", 0>>
    IN IF ref[2] = 0 THEN [ok |-> FALSE, text |-> <<>>]
       ELSE LET r == Unescape(Drop(s, ref[2])) IN [ok |-> r.ok, text |-> <<ref[1]>> \o r.text]

RECURSIVE Tokenize(_)
\* the XML events of a document; a token of kind "error" ends a malformed one
Tokenize(s) ==
  IF s = <<>> THEN <<>>
  ELSE IF Head(s) = "<" THEN
    LET close == IndexOf(s, ">")
        name == SubSeq(s, 2, close - 1)
    IN IF close = 0 \/ name = <<>> \/ IndexOf(name, "<") # 0
         THEN <<[kind |-> "error", text |-> <<>>]>>
       ELSE IF Head(name) = "/"
         THEN <<[kind |-> "end", text |-> Tail(name)]>> \o Tokenize(Drop(s, close))
       ELSE <<[kind |-> "start", text |-> name]>> \o Tokenize(Drop(s, close))
  ELSE
    LET lt == IndexOf(s, "<")
        stop == IF lt = 0 THEN Len(s) + 1 ELSE lt
        u == Unescape(SubSeq(s, 1, stop - 1))
    IN IF ~u.ok THEN <<[kind |-> "error", text |-> <<>>]>>
       ELSE <<[kind |-> "text", text |-> u.text]>> \o Tokenize(Drop(s, stop - 1))

IsWhitespace(t) == \A i \in 1..Len(t) : t[i] \in {" ", NL, "\t", "\r"}

DigitValue(c) == CHOOSE d \in 0..9 : Digits[d + 1] = c
IsDigits(t) == t # <<>> /\ \A i \in 1..Len(t) : \E d \in 1..10 : Digits[d] = t[i]

RECURSIVE NegValue(_, _)
\* minus the number the digits denote, accumulated below zero
NegValue(t, acc) == IF t = <<>> THEN acc ELSE NegValue(Tail(t), acc * 10 - DigitValue(Head(t)))

RECURSIVE StripZeros(_)
StripZeros(t) == IF t # <<>> /\ t[Len(t)] = "0" THEN StripZeros(SubSeq(t, 1, Len(t) - 1)) ELSE t

Failed(kind) == [ok |-> FALSE, value |-> kind, next |-> 0]
Parsed(v, next) == [ok |-> TRUE, value |-> v, next |-> next]

\* <i4>/<int>: a signed decimal of 32 bits
ParseInt(t) ==
  LET neg == t # <<>> /\ Head(t) = "-"
      digits == IF neg THEN Tail(t) ELSE t
  IN IF ~IsDigits(digits) \/ Len(digits) > 10 THEN Failed("InvalidValue")
     ELSE IF Len(digits) = 10 /\
             (NegValue(SubSeq(digits, 1, 9), 0) < MinI32 \div 10
              \/ (NegValue(SubSeq(digits, 1, 9), 0) = MinI32 \div 10
                  /\ DigitValue(digits[10]) > (IF neg THEN 8 ELSE 7)))
       THEN Failed("InvalidValue")
     ELSE Parsed(Int32(IF neg THEN NegValue(digits, 0) ELSE -NegValue(digits, 0)), 0)

\* <boolean>: "0" or "1"
ParseBool(t) ==
  IF t = <<"1">> THEN Parsed(Bool(TRUE), 0)
  ELSE IF t = <<"0">> THEN Parsed(Bool(FALSE), 0)
  ELSE Failed("InvalidValue")

\* <double>: a decimal, an infinity or NaN
ParseDouble(t) ==
  LET neg == t # <<>> /\ Head(t) = "-"
      body == IF neg THEN Tail(t) ELSE t
      dot == IndexOf(body, ".")
      int == IF dot = 0 THEN body ELSE SubSeq(body, 1, dot - 1)
      frac == IF dot = 0 THEN <<>> ELSE Drop(body, dot)
  IN IF t = <<"N","a","N">> THEN Parsed(Double(NotANumber), 0)
     ELSE IF body = <<"i","n","f">> THEN Parsed(Double(Infinite(neg)), 0)
     ELSE IF ~IsDigits(int) \/ Len(int) > 9 \/ (dot # 0 /\ ~IsDigits(frac))
       THEN Failed("InvalidValue")
     ELSE Parsed(Double(Finite(neg, -NegValue(int, 0), StripZeros(frac))), 0)

\* <dateTime.iso8601>: YYYYMMDDTHH:MM:SS
ParseDateTime(t) ==
  IF Len(t) = 17 /\ t[9] = "T" /\ t[12] = ":" /\ t[15] = ":"
     /\ IsDigits(SubSeq(t, 1, 8)) /\ IsDigits(SubSeq(t, 10, 11))
     /\ IsDigits(SubSeq(t, 13, 14)) /\ IsDigits(SubSeq(t, 16, 17))
    THEN Parsed(DateTime([year |-> -NegValue(SubSeq(t, 1, 4), 0),
                          month |-> -NegValue(SubSeq(t, 5, 6), 0),
                          day |-> -NegValue(SubSeq(t, 7, 8), 0),
                          hour |-> -NegValue(SubSeq(t, 10, 11), 0),
                          minute |-> -NegValue(SubSeq(t, 13, 14), 0),
                          second |-> -NegValue(SubSeq(t, 16, 17), 0)]), 0)
    ELSE Failed("InvalidValue")

IsB64(c) == \E i \in 1..64 : B64Alphabet[i] = c
B64Value(c) == (CHOOSE i \in 1..64 : B64Alphabet[i] = c) - 1

RECURSIVE DecodeB64(_)
\* the bytes of padded standard base64; <<-1>> for text that is not base64
DecodeB64(t) ==
  IF t = <<>> THEN <<>>
  ELSE IF Len(t) < 4 \/ ~IsB64(t[1]) \/ ~IsB64(t[2]) THEN <<-1>>
  ELSE
    LET a == B64Value(t[1])
        b == B64Value(t[2])
        b1 == a * 4 + b \div 16
    IN IF t[3] = "=" THEN (IF t[4] = "=" /\ Len(t) = 4 /\ b % 16 = 0 THEN <<b1>> ELSE <<-1>>)
       ELSE IF ~IsB64(t[3]) THEN <<-1>>
       ELSE
         LET c == B64Value(t[3])
             b2 == (b % 16) * 16 + c \div 4
         IN IF t[4] = "=" THEN (IF Len(t) = 4 /\ c % 4 = 0 THEN <<b1, b2>> ELSE <<-1>>)
            ELSE IF ~IsB64(t[4]) THEN <<-1>>
            ELSE LET rest == DecodeB64(Drop(t, 4))
                 IN IF rest # <<>> /\ rest[Len(rest)] = -1 THEN <<-1>>
                    ELSE <<b1, b2, (c % 4) * 64 + B64Value(t[4])>> \o rest

ParseBase64(t) ==
  LET bytes == DecodeB64(t)
  IN IF bytes # <<>> /\ bytes[Len(bytes)] = -1 THEN Failed("InvalidValue")
     ELSE Parsed(Base64(bytes), 0)

ScalarTags ==
  {<<"i","4">>, <<"i","n","t">>, <<"b","o","o","l","e","a","n">>, <<"s","t","r","i","n","g">>,
   <<"d","o","u","b","l","e">>, <<"d","a","t","e","T","i","m","e",".","i","s","o","8","6","0","1">>,
   <<"b","a","s","e","6","4">>}

\* the accumulated text of a scalar element, parsed by the element's type
ParseScalar(name, t) ==
  CASE name \in {<<"i","4">>, <<"i","n","t">>} -> ParseInt(t)
    [] name = <<"b","o","o","l","e","a","n">> -> ParseBool(t)
    [] name = <<"s","t","r","i","n","g">> -> Parsed(String(t), 0)
    [] name = <<"d","o","u","b","l","e">> -> ParseDouble(t)
    [] name = <<"b","a","s","e","6","4">> -> ParseBase64(t)
    [] OTHER -> ParseDateTime(t)

Is(toks, i, kind, name) == i >= 1 /\ i <= Len(toks) /\ toks[i].kind = kind /\ toks[i].text = name
\* the position after the whitespace between elements
SkipWs(toks, i) == IF i >= 1 /\ i <= Len(toks) /\ toks[i].kind = "text" /\ IsWhitespace(toks[i].text) THEN i + 1 ELSE i

RECURSIVE ParseValue(_, _), ParseMembers(_, _, _), ParseElements(_, _, _)
\* <value> element </value> starting at token i
ParseValue(toks, i0) ==
  LET i == SkipWs(toks, i0)
      j == SkipWs(toks, i + 1)
      closeAt(r, name) ==
        LET k == SkipWs(toks, r.next)
        IN IF ~r.ok THEN r
           ELSE IF Is(toks, k, "end", name) /\ Is(toks, SkipWs(toks, k + 1), "end", <<"v","a","l","u","e">>)
             THEN Parsed(r.value, SkipWs(toks, k + 1) + 1)
           ELSE Failed("UnexpectedXml")
  IN IF ~Is(toks, i, "start", <<"v","a","l","u","e">>) \/ j > Len(toks) \/ toks[j].kind # "start"
       THEN Failed("UnexpectedXml")
     ELSE IF toks[j].text \in ScalarTags THEN
       LET name == toks[j].text
           hasText == j + 1 <= Len(toks) /\ toks[j + 1].kind = "text"
           text == IF hasText THEN toks[j + 1].text ELSE <<>>
           r == ParseScalar(name, text)
       IN closeAt([r EXCEPT !.next = IF hasText THEN j + 2 ELSE j + 1], name)
     ELSE IF toks[j].text = <<"s","t","r","u","c","t">> THEN
       closeAt(ParseMembers(toks, j + 1, <<>>), <<"s","t","r","u","c","t">>)
     ELSE IF toks[j].text = <<"a","r","r","a","y">> THEN
       LET d == SkipWs(toks, j + 1)
           r == IF Is(toks, d, "start", <<"d","a","t","a">>)
                  THEN ParseElements(toks, d + 1, <<>>) ELSE Failed("UnexpectedXml")
           e == SkipWs(toks, r.next)
       IN IF r.ok /\ ~Is(toks, e, "end", <<"d","a","t","a">>) THEN Failed("UnexpectedXml")
          ELSE closeAt([r EXCEPT !.next = e + 1], <<"a","r","r","a","y">>)
     ELSE Failed("UnexpectedXml")

\* the <member> elements of a struct, collected into a map (a repeated name
\* overwrites)
ParseMembers(toks, i0, m) ==
  LET i == SkipWs(toks, i0)
      n == SkipWs(toks, i + 1)
      hasText == n + 1 <= Len(toks) /\ toks[n + 1].kind = "text"
      name == IF hasText THEN toks[n + 1].text ELSE <<>>
      e == IF hasText THEN n + 2 ELSE n + 1
  IN IF ~Is(toks, i, "start", <<"m","e","m","b","e","r">>) THEN Parsed(Struct(m), i)
     ELSE IF ~Is(toks, n, "start", <<"n","a","m","e">>) \/ ~Is(toks, e, "end", <<"n","a","m","e">>)
       THEN Failed("UnexpectedXml")
     ELSE LET r == ParseValue(toks, e + 1)
              c == SkipWs(toks, r.next)
          IN IF ~r.ok THEN r
             ELSE IF ~Is(toks, c, "end", <<"m","e","m","b","e","r">>) THEN Failed("UnexpectedXml")
             ELSE ParseMembers(toks, c + 1, BTreeInsert(m, name, r.value))

\* the <value> elements of <data>, in document order
ParseElements(toks, i0, a) ==
  LET i == SkipWs(toks, i0)
  IN IF ~Is(toks, i, "start", <<"v","a","l","u","e">>) THEN Parsed(Array(a), i)
     ELSE LET r == ParseValue(toks, i)
          IN IF ~r.ok THEN r ELSE ParseElements(toks, r.next, Append(a, r.value))

\* a whole document: one value and nothing after it
parse(s) ==
  LET toks == Tokenize(s)
      r == ParseValue(toks, 1)
  IN IF \E i \in 1..Len(toks) : toks[i].kind = "error" THEN Failed("XmlError")
     ELSE IF r.ok /\ SkipWs(toks, r.next) # Len(toks) + 1 THEN Failed("UnexpectedXml")
     ELSE r

----------------------------------------------------------------------------
(* Building a Struct: insertions into a BTreeMap, then Value::Struct(map)  *)
(* is formatted (src/src/value.rs:144-147).                                *)

InsertNames ==
  {<<"f","a","u","l","t","C","o","d","e">>, <<"f","a","u","l","t","S","t","r","i","n","g">>,
   <<"x", "&", "<", "x">>}

InsertValues == {Int32(4), String(<<"a", "<">>)}

Building == stack = <<>> /\ ret = "none"

\* map.insert(name, v)
Insert ==
  /\ Building /\ Len(hist) < MaxInserts
  /\ \E name \in InsertNames, v \in InsertValues :
       /\ map' = BTreeInsert(map, name, v)
       /\ hist' = Append(hist, <<name, v>>)
  /\ UNCHANGED <<value, stack, out, writes, failedAt, ret, fault, err, origin, chain>>

\* Value::Struct(map).format(&mut output)
FormatStruct ==
  /\ Building
  /\ value' = Struct(map)
  /\ stack' = <<Frame(Struct(map))>>
  /\ UNCHANGED <<out, writes, failedAt, ret, hist, map, fault, err, origin, chain>>

InitStruct ==
  /\ value = Struct(<<>>)
  /\ stack = <<>> /\ out = <<>> /\ writes = 0 /\ failedAt = 0 /\ ret = "none"
  /\ Idle

NextStruct == Insert \/ FormatStruct \/ Writeln \/ Call \/ TryCall \/ Return

SpecStruct == InitStruct /\ [][NextStruct]_vars

----------------------------------------------------------------------------
(* Fault::from_value, src/src/error.rs:139-154.                            *)

None == [kind |-> "None"]
Some(code, string) == [kind |-> "Some", fault_code |-> code, fault_string |-> string]

\* from_value without the match on the variants of the two fields
from_value_untyped(v) ==
  IF v.tag = "Struct" THEN
    LET code == BTreeGet(v.val, <<"f","a","u","l","t","C","o","d","e">>)
        string == BTreeGet(v.val, <<"f","a","u","l","t","S","t","r","i","n","g">>)
    IN IF code # <<>> /\ string # <<>> THEN Some(code[1].val, string[1].val) ELSE None
  ELSE None

\* from_value refusing a map of more than the two fields
from_value_exact(v) ==
  IF v.tag = "Struct" /\ Len(v.val) = 2 THEN
    LET code == BTreeGet(v.val, <<"f","a","u","l","t","C","o","d","e">>)
        string == BTreeGet(v.val, <<"f","a","u","l","t","S","t","r","i","n","g">>)
    IN IF code # <<>> /\ code[1].tag = "Int" /\ string # <<>> /\ string[1].tag = "String"
         THEN Some(code[1].val, string[1].val)
         ELSE None
  ELSE None

from_value(v) ==
  IF v.tag = "Struct" THEN
    LET code == BTreeGet(v.val, <<"f","a","u","l","t","C","o","d","e">>)
        string == BTreeGet(v.val, <<"f","a","u","l","t","S","t","r","i","n","g">>)
    IN IF code # <<>> /\ code[1].tag = "Int" /\ string # <<>> /\ string[1].tag = "String"
         THEN Some(code[1].val, string[1].val)
         ELSE None
  ELSE None

Bad == <<"b", "a", "d">>

FaultNames ==
  <<<<"e","x","t","r","a">>, <<"f","a","u","l","t","C","o","d","e">>,
    <<"f","a","u","l","t","S","t","r","i","n","g">>>>

Absent == [tag |-> "Absent", val |-> <<>>]

FieldValues == {Absent, Int32(7), Int32(MinI32), String(Bad), String(<<>>), Bool(TRUE), Array(<<>>)}

RECURSIVE MapOf(_, _)
\* the map holding, for each name from the i-th on, the value chosen for it
MapOf(choice, i) ==
  IF i > Len(FaultNames) THEN <<>>
  ELSE IF choice[i] = Absent THEN MapOf(choice, i + 1)
  ELSE BTreeInsert(MapOf(choice, i + 1), FaultNames[i], choice[i])

FaultInputs ==
  {Struct(MapOf(choice, 1)) : choice \in [1..Len(FaultNames) -> FieldValues]}
  \cup {Int32(7), String(Bad), Bool(FALSE), Array(<<>>), Array(<<Int32(7), String(Bad)>>),
        Base64(<<77>>), Double(Finite(FALSE, 7, <<>>))}

InitFault ==
  /\ value \in FaultInputs
  /\ stack = <<>> /\ out = <<>> /\ writes = 0 /\ failedAt = 0 /\ ret = "none"
  /\ Idle

FromValue ==
  /\ fault.kind = "unset"
  /\ fault' = from_value(value)
  /\ UNCHANGED <<value, stack, out, writes, failedAt, ret, hist, map, err, origin, chain>>

NextFault == FromValue

SpecFault == InitFault /\ [][NextFault]_vars

----------------------------------------------------------------------------
(* The error conversions, src/src/error.rs:30-46 and 86-96.  An error is   *)
(* its type, its variant and what the variant holds.                       *)

Error(type, variant, inner) == [type |-> type, variant |-> variant, inner |-> inner]

IoKinds == {"NotFound", "ConnectionRefused", "ConnectionReset", "TimedOut", "UnexpectedEof", "BrokenPipe"}
IoErrors == {Error("io::Error", k, <<>>) : k \in IoKinds}

Positions == {[row |-> r, column |-> c] : r \in 0..1, c \in 0..2}

\* hyper::Error::from(io::Error), used on line 44
HyperFromIo(e) == Error("HyperError", "Io", <<e>>)
\* xml::reader::Error::from(io::Error), used on line 94: no position is known
XmlFromIo(e) == Error("XmlError", "Io", <<[row |-> 0, column |-> 0], e>>)

ParseFromIoEarly(e) == Error("ParseError", "XmlError", <<XmlFromIo(e)>>)

\* lines 30-34
RequestFromHyper(e) == Error("RequestError", "HyperError", <<e>>)
\* lines 36-40
RequestFromParse(e) == Error("RequestError", "ParseError", <<e>>)
\* an io::Error lifted as a parse error
RequestFromIoAsParse(e) == Error("RequestError", "ParseError", <<ParseFromIoEarly(e)>>)
\* lines 42-46
RequestFromIo(e) == Error("RequestError", "HyperError", <<HyperFromIo(e)>>)
\* lines 86-90
ParseFromXml(e) == Error("ParseError", "XmlError", <<e>>)
\* lines 92-96
ParseFromIo(e) == Error("ParseError", "XmlError", <<XmlFromIo(e)>>)

StartErrors ==
  IoErrors
  \cup {Error("HyperError", v, <<>>) : v \in {"Method", "Status", "TooLarge", "Version"}}
  \cup {Error("XmlError", "Syntax", <<p, m>>) : p \in Positions, m \in {"unexpected token", "unclosed tag"}}
  \cup {Error("XmlError", "UnexpectedEof", <<p>>) : p \in Positions}
  \cup {Error("ParseError", "InvalidValue", <<d>>) : d \in {"integer", "boolean"}}
  \cup {Error("ParseError", "UnexpectedXml", <<x, p>>) : x \in {"value", "member"}, p \in Positions}

Convert(name, from, result) ==
  /\ err.type = from
  /\ err' = result
  /\ chain' = Append(chain, name)
  /\ UNCHANGED <<value, stack, out, writes, failedAt, ret, hist, map, fault, origin>>

IoToHyper == Convert("HyperError::from(io::Error)", "io::Error", HyperFromIo(err))
IoToXml == Convert("XmlError::from(io::Error)", "io::Error", XmlFromIo(err))
HyperToRequest == Convert("RequestError::from(HyperError)", "HyperError", RequestFromHyper(err))
ParseToRequest == Convert("RequestError::from(ParseError)", "ParseError", RequestFromParse(err))
IoToRequest == Convert("RequestError::from(io::Error)", "io::Error", RequestFromIo(err))
XmlToParse == Convert("ParseError::from(XmlError)", "XmlError", ParseFromXml(err))
IoToParse == Convert("ParseError::from(io::Error)", "io::Error", ParseFromIo(err))

InitError ==
  /\ value = Struct(<<>>)
  /\ stack = <<>> /\ out = <<>> /\ writes = 0 /\ failedAt = 0 /\ ret = "none"
  /\ hist = <<>> /\ map = <<>> /\ fault = [kind |-> "unset"]
  /\ err \in StartErrors /\ origin = err /\ chain = <<>>

NextError ==
  IoToHyper \/ IoToXml \/ HyperToRequest \/ ParseToRequest \/ IoToRequest \/ XmlToParse \/ IoToParse

SpecError == InitError /\ [][NextError]_vars

----------------------------------------------------------------------------
(* What the claims speak of: the lines of a text, tags by name, and the    *)
(* rendering of a value tree as the specification words it.                *)

RECURSIVE TextLines(_)
\* the lines of a text, each without the newline that ends it
TextLines(s) ==
  IF s = <<>> THEN <<>>
  ELSE LET n == IndexOf(s, NL)
       IN IF n = 0 THEN <<s>> ELSE <<SubSeq(s, 1, n - 1)>> \o TextLines(Drop(s, n))

\* the text of lines written one per writeln!
Written(ls) == Flatten([i \in 1..Len(ls) |-> ls[i] \o <<NL>>])

OpenTag(name) == <<"<">> \o name \o <<">">>
CloseTag(name) == <<"<", "/">> \o name \o <<">">>
EndsWith(s, p) == Len(s) >= Len(p) /\ SubSeq(s, Len(s) - Len(p) + 1, Len(s)) = p
\* the text of an element line between its opening and closing tag
Inside(line, name) == SubSeq(line, Len(name) + 3, Len(line) - Len(name) - 3)
IsElement(line, name) ==
  /\ Len(line) >= 2 * Len(name) + 5
  /\ StartsWith(line, OpenTag(name)) /\ EndsWith(line, CloseTag(name))

ElValue == <<"v","a","l","u","e">>
ElStruct == <<"s","t","r","u","c","t">>
ElMember == <<"m","e","m","b","e","r">>
ElName == <<"n","a","m","e">>
ElArray == <<"a","r","r","a","y">>
ElData == <<"d","a","t","a">>
ElString == <<"s","t","r","i","n","g">>

\* the element each scalar variant is written under
ElementOf(tag) ==
  CASE tag = "Int" -> <<"i","4">>
    [] tag = "Bool" -> <<"b","o","o","l","e","a","n">>
    [] tag = "String" -> ElString
    [] tag = "Double" -> <<"d","o","u","b","l","e">>
    [] tag = "DateTime" -> <<"d","a","t","e","T","i","m","e",".","i","s","o","8","6","0","1">>
    [] tag = "Base64" -> <<"b","a","s","e","6","4">>

IsScalar(v) == v.tag \in {"Int", "Bool", "String", "Double", "DateTime", "Base64"}
IsComposite(v) == v.tag \in {"Struct", "Array"}

\* "&" -> "&amp;", "<" -> "&lt;", every other character as it is, in order
Escaped(s) ==
  Flatten([i \in 1..Len(s) |->
             CASE s[i] = "&" -> <<"&","a","m","p",";">>
               [] s[i] = "<" -> <<"&","l","t",";">>
               [] OTHER -> <<s[i]>>])

\* the text of a scalar, as its variant is written
ScalarText(v) ==
  CASE v.tag = "Int" -> IntToText(v.val)
    [] v.tag = "Bool" -> IF v.val THEN <<"1">> ELSE <<"0">>
    [] v.tag = "String" -> Escaped(v.val)
    [] v.tag = "Double" -> DoubleToText(v.val)
    [] v.tag = "DateTime" -> format_datetime(v.val)
    [] v.tag = "Base64" -> encode(v.val)

RECURSIVE Rendering(_)
\* the lines of a value: the value tree followed exactly
Rendering(v) ==
  <<OpenTag(ElValue)>> \o
  (CASE v.tag = "Struct" ->
          <<OpenTag(ElStruct)>> \o
          Flatten([i \in 1..Len(v.val) |->
                     <<OpenTag(ElMember), OpenTag(ElName) \o Escaped(v.val[i][1]) \o CloseTag(ElName)>>
                     \o Rendering(v.val[i][2]) \o <<CloseTag(ElMember)>>])
          \o <<CloseTag(ElStruct)>>
     [] v.tag = "Array" ->
          <<OpenTag(ElArray), OpenTag(ElData)>> \o
          Flatten([i \in 1..Len(v.val) |-> Rendering(v.val[i])])
          \o <<CloseTag(ElData), CloseTag(ElArray)>>
     [] OTHER -> <<OpenTag(ElementOf(v.tag)) \o ScalarText(v) \o CloseTag(ElementOf(v.tag))>>)
  \o <<CloseTag(ElValue)>>

Children(v) ==
  CASE v.tag = "Struct" -> [i \in 1..Len(v.val) |-> v.val[i][2]]
    [] v.tag = "Array" -> v.val
    [] OTHER -> <<>>

RECURSIVE NodeCount(_), ForestCount(_)
\* the nodes of a value tree
NodeCount(v) == 1 + ForestCount(Children(v))
ForestCount(f) == IF f = <<>> THEN 0 ELSE NodeCount(Head(f)) + ForestCount(Tail(f))

RECURSIVE HasNaN(_)
HasNaN(v) ==
  CASE v.tag = "Double" -> v.val.class = "nan"
    [] v.tag = "Array" -> \E i \in 1..Len(v.val) : HasNaN(v.val[i])
    [] v.tag = "Struct" -> \E i \in 1..Len(v.val) : HasNaN(v.val[i][2])
    [] OTHER -> FALSE

RECURSIVE MemberNames(_), StringPayloads(_)
\* the member names of a value tree, in the order format meets them
MemberNames(v) ==
  CASE v.tag = "Struct" -> Flatten([i \in 1..Len(v.val) |-> <<v.val[i][1]>> \o MemberNames(v.val[i][2])])
    [] v.tag = "Array" -> Flatten([i \in 1..Len(v.val) |-> MemberNames(v.val[i])])
    [] OTHER -> <<>>
\* the String payloads of a value tree, in the order format meets them
StringPayloads(v) ==
  CASE v.tag = "Struct" -> Flatten([i \in 1..Len(v.val) |-> StringPayloads(v.val[i][2])])
    [] v.tag = "Array" -> Flatten([i \in 1..Len(v.val) |-> StringPayloads(v.val[i])])
    [] v.tag = "String" -> <<v.val>>
    [] OTHER -> <<>>

Succeeded == Done /\ ret = "Ok"

----------------------------------------------------------------------------
(* The claims.                                                             *)

FaultCodeName == <<"f","a","u","l","t","C","o","d","e">>
FaultStringName == <<"f","a","u","l","t","S","t","r","i","n","g">>

\* the value is a Struct with faultCode an Int and faultString a String
HasFaultFields(v) ==
  /\ v.tag = "Struct"
  /\ \E i \in 1..Len(v.val) : v.val[i][1] = FaultCodeName /\ v.val[i][2].tag = "Int"
  /\ \E i \in 1..Len(v.val) : v.val[i][1] = FaultStringName /\ v.val[i][2].tag = "String"

FieldOf(v, name) == v.val[CHOOSE i \in 1..Len(v.val) : v.val[i][1] = name][2]

\* C1: from_value returns Some(Fault) holding the code and the string unchanged
\* when the value is a Struct whose faultCode is an Int and whose faultString is
\* a String; it returns None for a value that is not a Struct, for a missing
\* key and for a key of another variant; it returns nothing else.
C1_FromValue ==
  fault.kind # "unset" =>
    /\ fault.kind \in {"Some", "None"}
    /\ HasFaultFields(value) =>
         /\ fault.kind = "Some"
         /\ fault.fault_code = FieldOf(value, FaultCodeName).val
         /\ fault.fault_string = FieldOf(value, FaultStringName).val
    /\ ~HasFaultFields(value) => fault.kind = "None"

C1_Witness ==
  /\ fault = [kind |-> "Some", fault_code |-> 7, fault_string |-> Bad]
  /\ Len(value.val) = 2

\* C2, as claimed: a Struct with the two well-typed fields and at least one
\* more field yields None.
C2_ExactlyTwoFields ==
  fault.kind # "unset" /\ HasFaultFields(value) /\ Len(value.val) > 2 => fault.kind = "None"

\* C2, amended: a Fault comes only from a Struct that holds faultCode as an Int
\* and faultString as a String, and further fields are ignored: with them the
\* same Fault is returned as without them.
C2_ExtraFieldsIgnored ==
  /\ fault.kind = "Some" => HasFaultFields(value)
  /\ fault.kind # "unset" /\ HasFaultFields(value) /\ Len(value.val) > 2 =>
       fault = Some(FieldOf(value, FaultCodeName).val, FieldOf(value, FaultStringName).val)

C2_Witness ==
  /\ fault.kind = "Some" /\ Len(value.val) = 3
  /\ \E i \in 1..3 : value.val[i][1] \notin {FaultCodeName, FaultStringName}

NoRawMarkup(t) ==
  \A i \in 1..Len(t) :
    /\ t[i] # "<"
    /\ t[i] = "&" => \/ StartsWith(Drop(t, i - 1), <<"&","a","m","p",";">>)
                     \/ StartsWith(Drop(t, i - 1), <<"&","l","t",";">>)

\* the first place where p occurs in s, or 0
Find(s, p) ==
  LET at(i) == SubSeq(s, i, i + Len(p) - 1) = p
      places == {i \in 1..(Len(s) - Len(p) + 1) : at(i)}
  IN IF places = {} THEN 0 ELSE CHOOSE i \in places : \A j \in places : i <= j

RECURSIVE ElementTexts(_, _)
\* the texts between each <name> and the </name> that follows it, in order
ElementTexts(s, name) ==
  LET from == Find(s, OpenTag(name))
      rest == Drop(s, from + Len(name) + 1)
      to == Find(rest, CloseTag(name))
  IN IF from = 0 THEN <<>>
     ELSE IF to = 0 THEN <<rest>>
     ELSE <<SubSeq(rest, 1, to - 1)>> \o ElementTexts(Drop(rest, to + Len(name) + 2), name)

\* C4: the text of every <string> and of every <name> is the payload with each
\* "&" replaced by "&amp;" and each "<" by "&lt;" and nothing else changed, the
\* same rule for both, so that it holds no raw "<" and no "&" outside an escape.
C4_Escaping ==
  Succeeded =>
    LET strings == ElementTexts(out, ElString)
        names == ElementTexts(out, ElName)
    IN /\ strings = [i \in 1..Len(StringPayloads(value)) |-> Escaped(StringPayloads(value)[i])]
       /\ names = [i \in 1..Len(MemberNames(value)) |-> Escaped(MemberNames(value)[i])]
       /\ \A i \in 1..Len(strings) : NoRawMarkup(strings[i])
       /\ \A i \in 1..Len(names) : NoRawMarkup(names[i])

C4_Witness ==
  /\ Succeeded /\ value.tag = "Struct" /\ Len(value.val) = 1
  /\ value.val[1] = <<<<"x", "&", "<", "x">>, String(<<"<", "&">>)>>

\* the pairs inserted, as a set
Inserted == {hist[i] : i \in 1..Len(hist)}
\* no name was inserted with two values
OnePerName == \A p, q \in Inserted : p[1] = q[1] => p = q

RECURSIVE Ascending(_)
\* the pairs of a set in ascending order of their names
Ascending(S) ==
  IF S = {} THEN <<>>
  ELSE LET least == CHOOSE p \in S : \A q \in S : q = p \/ StrLess(p[1], q[1])
       IN <<least>> \o Ascending(S \ {least})

IsDecimalOf(t, n) ==
  LET neg == t # <<>> /\ Head(t) = "-"
      digits == IF neg THEN Tail(t) ELSE t
  IN /\ IsDigits(digits)
     /\ Len(digits) = 1 \/ Head(digits) # "0"
     /\ neg <=> n < 0
     /\ NegValue(digits, 0) = IF neg THEN n ELSE -n

\* what C6 says of the element of a scalar: the element of the variant, an
\* Int in signed decimal, a Bool as 1 or 0
IsElementOf(el, v) ==
  /\ IsElement(el, ElementOf(v.tag))
  /\ v.tag = "Int" => IsDecimalOf(Inside(el, ElementOf("Int")), v.val)
  /\ v.tag = "Bool" => Inside(el, ElementOf("Bool")) = IF v.val THEN <<"1">> ELSE <<"0">>

\* C6, as claimed: a scalar is written as exactly three lines, <value>, one
\* line holding the element of its variant, and </value>; an Int under <i4> in
\* signed decimal, a Bool under <boolean> as 1 or 0, every other variant under
\* its own element.
C6_ThreeLines ==
  Succeeded /\ IsScalar(value) =>
    LET ls == TextLines(out)
    IN /\ out = Written(ls)
       /\ Len(ls) = 3
       /\ ls[1] = OpenTag(ElValue) /\ ls[3] = CloseTag(ElValue)
       /\ IsElementOf(ls[2], value)

\* the line breaks of a text
LineBreaks(t) == Cardinality({i \in 1..Len(t) : t[i] = NL})

\* C6, amended: a scalar is written in exactly three writes, each ended by a
\* line break: <value>, the element of its variant, </value>; these are three
\* lines unless a String payload holds line breaks, which are written as they
\* are inside the element.  An Int stands under <i4> in signed decimal, a Bool
\* under <boolean> as 1 or 0, every other variant under its own element.
C6_Scalars ==
  Succeeded /\ IsScalar(value) =>
    LET el == SubSeq(out, Len(ElValue) + 4, Len(out) - Len(ElValue) - 5)
    IN /\ writes = 3
       /\ out = Written(<<OpenTag(ElValue), el, CloseTag(ElValue)>>)
       /\ IsElementOf(el, value)
       /\ Len(TextLines(out)) = 3 + (IF value.tag = "String" THEN LineBreaks(value.val) ELSE 0)

C6_Witness == Succeeded /\ value = String(<<"a", NL>>) /\ Len(TextLines(out)) = 4

\* C7: a composite is written by following the value tree: <struct>, one
\* <member> block per field with its <name> line and the whole rendering of
\* its value, </struct>; <array><data>, the renderings of the elements in index
\* order, </data></array>; nothing between the tags of an empty composite; the
\* same at every depth.
C7_Composites ==
  Succeeded /\ IsComposite(value) => out = Written(Rendering(value))

C7_Witness ==
  /\ Succeeded /\ value.tag = "Struct" /\ Len(value.val) = 1
  /\ value.val[1][2].tag = "Array" /\ Len(value.val[1][2].val) = 1

ThroughParse ==
  \E i \in 1..Len(chain) : chain[i] \in {"ParseError::from(io::Error)", "ParseError::from(XmlError)"}

\* C9, as claimed: whatever conversions an io::Error goes through, the
\* RequestError it ends in is a HyperError.
C9_IoNeverParseError ==
  origin.type = "io::Error" /\ err.type = "RequestError" => err.variant = "HyperError"

\* C9, amended: an io::Error converted directly, or by way of HyperError,
\* becomes RequestError::HyperError; converted by way of ParseError it becomes
\* ParseError::XmlError and then RequestError::ParseError; a tokenizer error
\* becomes ParseError::XmlError and then RequestError::ParseError.
C9_Conversions ==
  /\ origin.type = "io::Error" /\ err.type = "RequestError" =>
       /\ ~ThroughParse => err.variant = "HyperError" /\ err.inner[1].variant = "Io"
       /\ ThroughParse => err.variant = "ParseError" /\ err.inner[1].variant = "XmlError"
  /\ origin.type \in {"io::Error", "XmlError"} /\ err.type = "ParseError" => err.variant = "XmlError"
  /\ origin.type = "XmlError" /\ err.type = "RequestError" =>
       err.variant = "ParseError" /\ err.inner[1] = ParseFromXml(origin)

C9_Witness ==
  /\ origin.type = "io::Error" /\ err.type = "RequestError" /\ err.variant = "ParseError"
  /\ chain = <<"ParseError::from(io::Error)", "RequestError::from(ParseError)">>

RECURSIVE Nesting(_, _)
\* the tags of a text read in order against the elements still open: whether
\* every closing tag closed the innermost open element, the elements left
\* open, and the <value> elements opened
Nesting(s, open) ==
  IF s = <<>> THEN [ok |-> TRUE, open |-> open, values |-> 0]
  ELSE IF Head(s) # "<" THEN Nesting(Tail(s), open)
  ELSE
    LET close == IndexOf(s, ">")
        name == SubSeq(s, 2, close - 1)
    IN IF close = 0 \/ name = <<>> THEN [ok |-> FALSE, open |-> open, values |-> 0]
       ELSE IF Head(name) = "/" THEN
         IF open # <<>> /\ open[Len(open)] = Tail(name)
           THEN Nesting(Drop(s, close), SubSeq(open, 1, Len(open) - 1))
           ELSE [ok |-> FALSE, open |-> open, values |-> 0]
       ELSE LET r == Nesting(Drop(s, close), Append(open, name))
            IN [r EXCEPT !.values = r.values + IF name = ElValue THEN 1 ELSE 0]

\* C10: whatever has been written so far is well nested: every closing tag
\* closes the innermost element still open; and once format has returned Ok
\* no element is open and there are as many <value> as nodes in the tree.
C10_WellNested ==
  LET n == Nesting(out, <<>>)
  IN /\ n.ok
     /\ Succeeded => n.open = <<>> /\ n.values = NodeCount(value)

C10_Witness ==
  /\ Done /\ ret = "Err" /\ value.tag = "Struct" /\ NodeCount(value) = 3
  /\ Len(Nesting(out, <<>>).open) = 5

============================================================================
